---- MODULE Spec2Model ----
(***************************************************************************)
(* Model of the script execution service of server/routes.ts: the route    *)
(* handler of POST /api/execute and the engine executePython, one          *)
(* interpreter process, one deadline timer and two output buffers per      *)
(* call, driven by the events of Node's event loop.                        *)
(***************************************************************************)
EXTENDS Integers, Sequences, FiniteSets, TLC

(***************************************************************************)
(* Bounds of the model.                                                    *)
(***************************************************************************)
MaxData == 2         \* data events handled per invocation
TickMs == 15000      \* granularity of the clock
MaxStart == 15000    \* latest time at which a request is accepted

(***************************************************************************)
(* Program constants.                                                      *)
(***************************************************************************)
EXECUTION_TIMEOUT == 30000
MAX_OUTPUT_LENGTH == 10000

\* the request slots: the calls that may be in flight together
Inv == {1, 2}
Horizon == MaxStart + EXECUTION_TIMEOUT + TickMs

(***************************************************************************)
(* JavaScript values.  A string is kept run-length encoded: a sequence of  *)
(* runs [c, n], the character c repeated n >= 1 times, adjacent runs       *)
(* having different characters, so that a buffer of 10,000 characters is   *)
(* a short value and two equal strings are equal values.                   *)
(***************************************************************************)
Run(c, n) == [c |-> c, n |-> n]

\* s + t
Concat(s, t) ==
    IF s = <<>> THEN t
    ELSE IF t = <<>> THEN s
    ELSE IF s[Len(s)].c = t[1].c
         THEN SubSeq(s, 1, Len(s) - 1)
              \o <<Run(t[1].c, s[Len(s)].n + t[1].n)>> \o Tail(t)
         ELSE s \o t

\* a string literal, given character by character
RECURSIVE Text(_)
Text(cs) == IF cs = <<>> THEN <<>> ELSE Concat(<<Run(Head(cs), 1)>>, Text(Tail(cs)))

\* s.length
RECURSIVE length(_)
length(s) == IF s = <<>> THEN 0 ELSE s[1].n + length(Tail(s))

\* s.slice(0, k)
RECURSIVE slice(_, _)
slice(s, k) ==
    IF k <= 0 \/ s = <<>> THEN <<>>
    ELSE IF s[1].n >= k THEN <<Run(s[1].c, k)>>
    ELSE <<s[1]>> \o slice(Tail(s), k - s[1].n)

\* the characters String.prototype.trim removes (those of the model's alphabet)
WhiteSpace == {" ", "\n", "\t", "\r"}

RECURSIVE trimStart(_)
trimStart(s) ==
    IF s = <<>> THEN <<>>
    ELSE IF s[1].c \in WhiteSpace THEN trimStart(Tail(s)) ELSE s

RECURSIVE trimEnd(_)
trimEnd(s) ==
    IF s = <<>> THEN <<>>
    ELSE IF s[Len(s)].c \in WhiteSpace THEN trimEnd(SubSeq(s, 1, Len(s) - 1)) ELSE s

\* s.trim()
trim(s) == trimEnd(trimStart(s))

\* the characters of s one by one (for short strings)
RECURSIVE Chars(_)
Chars(s) ==
    IF s = <<>> THEN <<>>
    ELSE <<s[1].c>> \o Chars(IF s[1].n = 1 THEN Tail(s) ELSE <<Run(s[1].c, s[1].n - 1)>> \o Tail(s))

\* s.includes(sub), for short strings
includes(s, sub) ==
    LET cs == Chars(s)
        cu == Chars(sub)
    IN \E k \in 0..(Len(cs) - Len(cu)) : SubSeq(cs, k + 1, k + Len(cu)) = cu

Digit(d) == <<"0", "1", "2", "3", "4", "5", "6", "7", "8", "9">>[d + 1]

\* String(n) of a non-negative integer
RECURSIVE Decimal(_)
Decimal(n) == IF n < 10 THEN Text(<<Digit(n)>>) ELSE Concat(Decimal(n \div 10), Text(<<Digit(n % 10)>>))

\* values of the other JavaScript types the handler and the engine meet
JsUndefined == [t |-> "undefined"]
JsNull == [t |-> "null"]
JsNumber(n) == [t |-> "number", num |-> n]
JsString(s) == [t |-> "string", str |-> s]
JsObject == [t |-> "object"]

\* an object whose own toString is not a function, as JSON.parse makes of
\* {"toString": 1}: it has no conversion to a primitive
JsNoToString == [t |-> "object", own |-> "toString"]

\* `${v}` throws a TypeError
ToStringThrows(v) == v = JsNoToString

\* typeof v
typeof(v) == IF v.t = "null" THEN "object" ELSE v.t

\* the truthiness of v, as in !v and v || w
Truthy(v) ==
    CASE v.t = "undefined" -> FALSE
      [] v.t = "null" -> FALSE
      [] v.t = "number" -> v.num # 0
      [] v.t = "string" -> v.str # <<>>
      [] OTHER -> TRUE

\* `${v}` of a number or of null
TemplateString(v) ==
    CASE v.t = "null" -> Text(<<"n", "u", "l", "l">>)
      [] v.t = "number" /\ v.num >= 0 -> Decimal(v.num)
      [] v.t = "number" /\ v.num < 0 -> Concat(Text(<<"-">>), Decimal(0 - v.num))


\* a || b
Or(a, b) == IF Truthy(a) THEN a ELSE b

(***************************************************************************)
(* Bytes on a pipe.  A chunk is a run-length encoded sequence of bytes: an *)
(* ASCII byte is named by its character, and the two bytes of the UTF-8    *)
(* encoding of U+00E9 are LeadByte (0xC3) and ContByte (0xA9).             *)
(***************************************************************************)
LeadByte == "0xC3"
ContByte == "0xA9"
EAcute == "U+00E9"
Replacement == "U+FFFD"

Replacements(n) == IF n = 0 THEN <<>> ELSE <<Run(Replacement, n)>>

\* data.toString(): the UTF-8 decoding of one chunk, every byte that is not
\* part of a complete sequence inside the chunk becoming U+FFFD
RECURSIVE toString(_)
toString(data) ==
    IF data = <<>> THEN <<>>
    ELSE LET r == data[1] IN
         IF r.c = LeadByte
         THEN IF Len(data) >= 2 /\ data[2].c = ContByte
              THEN LET rest == IF data[2].n = 1
                               THEN SubSeq(data, 3, Len(data))
                               ELSE <<Run(ContByte, data[2].n - 1)>> \o SubSeq(data, 3, Len(data))
                   IN Concat(Concat(Replacements(r.n - 1), <<Run(EAcute, 1)>>), toString(rest))
              ELSE Concat(Replacements(r.n), toString(Tail(data)))
         ELSE IF r.c = ContByte
         THEN Concat(Replacements(r.n), toString(Tail(data)))
         ELSE Concat(<<r>>, toString(Tail(data)))

(***************************************************************************)
(* The engine's pure parts.                                                *)
(***************************************************************************)
TRUNCATION_MARKER ==
    Text(<<"\n", ".", ".", ".", " ", "(", "o", "u", "t", "p", "u", "t", " ",
           "t", "r", "u", "n", "c", "a", "t", "e", "d", ")">>)

NO_OUTPUT == Text(<<"(", "n", "o", " ", "o", "u", "t", "p", "u", "t", ")">>)

EXITED_WITH_CODE ==
    Text(<<"P", "r", "o", "c", "e", "s", "s", " ", "e", "x", "i", "t", "e", "d", " ",
           "w", "i", "t", "h", " ", "c", "o", "d", "e", " ">>)

TIMED_OUT_AFTER ==
    Text(<<"E", "x", "e", "c", "u", "t", "i", "o", "n", " ", "t", "i", "m", "e", "d", " ",
           "o", "u", "t", " ", "a", "f", "t", "e", "r", " ">>)

SECONDS == Text(<<" ", "s", "e", "c", "o", "n", "d", "s">>)

FAILED_TO_EXECUTE ==
    Text(<<"F", "a", "i", "l", "e", "d", " ", "t", "o", " ", "e", "x", "e", "c", "u", "t", "e", ":", " ">>)

SCRIPT_IS_REQUIRED ==
    Text(<<"S", "c", "r", "i", "p", "t", " ", "i", "s", " ", "r", "e", "q", "u", "i", "r", "e", "d">>)

\* err.message of the error event of a failed spawn
SPAWN_ENOENT ==
    Text(<<"s", "p", "a", "w", "n", " ", "p", "y", "t", "h", "o", "n", "3", " ",
           "E", "N", "O", "E", "N", "T">>)

\* the code argument of the close event that follows a failed spawn (-ENOENT)
ENOENT_CODE == JsNumber(0 - 2)

\* a data handler that appends the marker without cutting the buffer first
appendUncut(buf, data) ==
    LET grown == Concat(buf, toString(data))
    IN IF length(grown) > MAX_OUTPUT_LENGTH
       THEN Concat(grown, TRUNCATION_MARKER)
       ELSE grown

\* a data handler that applies the cap only to a buffer not yet truncated
appendCappedOnce(buf, data) ==
    LET grown == Concat(buf, toString(data))
    IN IF length(grown) > MAX_OUTPUT_LENGTH /\ length(buf) <= MAX_OUTPUT_LENGTH
       THEN Concat(slice(grown, MAX_OUTPUT_LENGTH), TRUNCATION_MARKER)
       ELSE grown

\* the body of a data handler: buf += data.toString(), then the cap
appendCapped(buf, data) ==
    LET grown == Concat(buf, toString(data))
    IN IF length(grown) > MAX_OUTPUT_LENGTH
       THEN Concat(slice(grown, MAX_OUTPUT_LENGTH), TRUNCATION_MARKER)
       ELSE grown

Result(success, output, error, executionTime) ==
    [success |-> success, output |-> output, error |-> error, executionTime |-> executionTime]

\* a timeout message that forgets the division by 1000
timeoutResultMs(executionTime) ==
    Result(FALSE, JsUndefined,
           JsString(Concat(Concat(TIMED_OUT_AFTER, Decimal(EXECUTION_TIMEOUT)), SECONDS)),
           JsNumber(executionTime))

\* a timeout result that copies the success branch's placeholder output
timeoutResultPlaceholder(executionTime) ==
    Result(FALSE, JsString(NO_OUTPUT),
           JsString(Concat(Concat(TIMED_OUT_AFTER, Decimal(EXECUTION_TIMEOUT \div 1000)), SECONDS)),
           JsNumber(executionTime))

\* the object the deadline timer resolves with
timeoutResult(executionTime) ==
    Result(FALSE, JsUndefined,
           JsString(Concat(Concat(TIMED_OUT_AFTER, Decimal(EXECUTION_TIMEOUT \div 1000)), SECONDS)),
           JsNumber(executionTime))

\* a close handler whose failure branch copies the success branch's placeholder
closeResultPlaceholder(code, out, err, executionTime) ==
    IF code = JsNumber(0)
    THEN Result(TRUE, Or(JsString(trim(out)), JsString(NO_OUTPUT)), JsUndefined,
                JsNumber(executionTime))
    ELSE Result(FALSE, Or(JsString(trim(out)), JsString(NO_OUTPUT)),
                Or(JsString(trim(err)), JsString(Concat(EXITED_WITH_CODE, TemplateString(code)))),
                JsNumber(executionTime))

\* a close handler that reports the stderr text of a successful run as its error
closeResultWithStderr(code, out, err, executionTime) ==
    IF code = JsNumber(0)
    THEN Result(TRUE, Or(JsString(trim(out)), JsString(NO_OUTPUT)),
                Or(JsString(trim(err)), JsUndefined), JsNumber(executionTime))
    ELSE Result(FALSE, Or(JsString(trim(out)), JsUndefined),
                Or(JsString(trim(err)), JsString(Concat(EXITED_WITH_CODE, TemplateString(code)))),
                JsNumber(executionTime))

\* a close handler whose failure branch reports the stderr text as it is
closeResultBareStderr(code, out, err, executionTime) ==
    IF code = JsNumber(0)
    THEN Result(TRUE, Or(JsString(trim(out)), JsString(NO_OUTPUT)), JsUndefined,
                JsNumber(executionTime))
    ELSE Result(FALSE, Or(JsString(trim(out)), JsUndefined), JsString(trim(err)),
                JsNumber(executionTime))

\* the object the close handler resolves with
closeResult(code, out, err, executionTime) ==
    IF code = JsNumber(0)
    THEN Result(TRUE, Or(JsString(trim(out)), JsString(NO_OUTPUT)), JsUndefined,
                JsNumber(executionTime))
    ELSE Result(FALSE, Or(JsString(trim(out)), JsUndefined),
                Or(JsString(trim(err)), JsString(Concat(EXITED_WITH_CODE, TemplateString(code)))),
                JsNumber(executionTime))

\* the object the error handler resolves with
errorResult(message, executionTime) ==
    Result(FALSE, JsUndefined, JsString(Concat(FAILED_TO_EXECUTE, message)),
           JsNumber(executionTime))

\* the promise of one call: resolve settles a pending promise and is
\* ignored by a settled one
PendingPromise == [state |-> "pending", value |-> JsUndefined]
NoPromise == [state |-> "none", value |-> JsUndefined]
RejectedPromise == [state |-> "rejected", value |-> JsUndefined]

\* a resolve that lets a later call replace the value
resolveAgain(p, r) == [state |-> "fulfilled", value |-> r]

resolve(p, r) == IF p.state = "pending" THEN [state |-> "fulfilled", value |-> r] ELSE p

\* a test of the request body that forgets the type
scriptFalsy(script) == ~Truthy(script)

\* the handler's test of the request body
scriptRejected(script) == ~Truthy(script) \/ typeof(script) # "string"


(***************************************************************************)
(* State.  Every variable but the clock is a function of the request slot: *)
(* the locals of one call of the handler and of one call of executePython. *)
(***************************************************************************)
VARIABLES
    now,         \* the event loop's clock, in ms: the monotonic time timers run on
    skew,        \* the system clock less the event loop's clock
    connected,   \* whether the caller's connection is still open
    log,         \* what the slot's handler wrote to the console, in order
    request,     \* req.body of the slot's request, NoRequest before it arrives
    handler,     \* where the route handler is: idle, awaiting, responded, faulted
    response,    \* what the handler sent: NoResponse or [status, body]
    promise,     \* the promise executePython returned
    startTime,   \* const startTime
    stdout,      \* let stdout
    stderr,      \* let stderr
    timeout,     \* the deadline timer: none, armed, fired, cleared
    spawnTimer,  \* the timer of spawn's timeout option: none, armed, fired, cleared
    timeoutDue,  \* when both timers are due
    process,     \* the child: [state, code, traps]
    ndata,       \* data events handled so far
    sigterm,     \* who sent SIGTERM to the child, in order
    written,     \* history: every byte the child wrote to its stdout
    received,    \* history: the text of every stdout chunk, as the handler decoded it
    via,         \* history: the first terminal event handled: close, error or timeout
    first,       \* history: the result of the first terminal event handled
    deliveries,  \* history: how many times the promise took a value
    atDeadline   \* history: the child's state when the deadline timer ran

\* the state of the client's stores (lib/storage and the password screen), which
\* the server never touches
VARIABLES
    currentUserId,  \* let currentUserId of lib/storage
    asyncStorage,   \* AsyncStorage: the item of every key that has one
    secureStore,    \* the store of the secrets: SecureStore, on web AsyncStorage
    calls,          \* the note operations in flight: the locals of each call
    passwords,      \* the password screen's list, as loadPasswords set it
    ledger,         \* history: per key, the completed mutations applied one after another
    createdUnder,   \* history: per note id, the user current when the note was made
    completed       \* history: the password operation that completed last

storeVars == <<currentUserId, asyncStorage, secureStore, calls, passwords, ledger, createdUnder,
               completed>>

serverVars == <<now, skew, connected, log, request, handler, response, promise, startTime, stdout, stderr,
                timeout, spawnTimer, timeoutDue, process, ndata, sigterm, written, received, via,
                first, deliveries, atDeadline>>

vars == <<serverVars, storeVars>>

NoRequest == [script |-> JsUndefined, noteId |-> JsUndefined, arrived |-> FALSE]
NoResponse == [status |-> 0, body |-> JsUndefined]
NoProcess == [state |-> "none", code |-> JsUndefined, traps |-> FALSE]
NoResult == JsUndefined

\* the note operations that may be in flight together
Calls == {1, 2}
NoCall == [op |-> "none", id |-> 0, notes |-> <<>>]
NoItems == [k \in {} |-> JsNull]
NoOperation == [op |-> "none", id |-> <<>>, password |-> <<>>]

\* Date.now(): the system clock, which can be set back while the event loop's
\* clock, the one timers are measured on, runs on
DateNow == now + skew

Init ==
    /\ now = 0
    /\ skew = 0
    /\ connected = [i \in Inv |-> TRUE]
    /\ log = [i \in Inv |-> <<>>]
    /\ request = [i \in Inv |-> NoRequest]
    /\ handler = [i \in Inv |-> "idle"]
    /\ response = [i \in Inv |-> NoResponse]
    /\ promise = [i \in Inv |-> NoPromise]
    /\ startTime = [i \in Inv |-> 0]
    /\ stdout = [i \in Inv |-> <<>>]
    /\ stderr = [i \in Inv |-> <<>>]
    /\ timeout = [i \in Inv |-> "none"]
    /\ spawnTimer = [i \in Inv |-> "none"]
    /\ timeoutDue = [i \in Inv |-> 0]
    /\ process = [i \in Inv |-> NoProcess]
    /\ ndata = [i \in Inv |-> 0]
    /\ sigterm = [i \in Inv |-> <<>>]
    /\ written = [i \in Inv |-> <<>>]
    /\ received = [i \in Inv |-> <<>>]
    /\ via = [i \in Inv |-> "none"]
    /\ first = [i \in Inv |-> NoResult]
    /\ deliveries = [i \in Inv |-> 0]
    /\ atDeadline = [i \in Inv |-> "none"]
    /\ currentUserId = JsNull
    /\ asyncStorage = NoItems
    /\ secureStore = NoItems
    /\ calls = [c \in Calls |-> NoCall]
    /\ passwords = <<>>
    /\ ledger = NoItems
    /\ createdUnder = NoItems
    /\ completed = NoOperation

\* One iteration of the event loop runs the expired timers before it polls for
\* I/O: no I/O callback runs while an armed timer is due.
TimerDue(j) == (timeout[j] = "armed" \/ spawnTimer[j] = "armed") /\ now >= timeoutDue[j]
NoTimerDue == \A j \in Inv : ~TimerDue(j)

\* the bookkeeping of one call of resolve by a terminal handler of slot i
Settle(i, r, event) ==
    /\ via' = [via EXCEPT ![i] = IF @ = "none" THEN event ELSE @]
    /\ promise' = [promise EXCEPT ![i] = resolve(promise[i], r)]
    /\ first' = [first EXCEPT ![i] = IF first[i] = NoResult THEN r ELSE first[i]]
    /\ deliveries' = [deliveries EXCEPT
                        ![i] = IF resolve(promise[i], r) # promise[i] THEN @ + 1 ELSE @]

\* a clearTimeout that leaves the timer pending
clearNothing(t) == t

clearTimeout(t) == IF t = "armed" THEN "cleared" ELSE t

\* `${v}` of a value that has a string conversion
StringOf(v) ==
    CASE v.t = "string" -> v.str
      [] v.t = "undefined" -> Text(<<"u", "n", "d", "e", "f", "i", "n", "e", "d">>)
      [] OTHER -> TemplateString(v)

\* line 96: what the first log line is made of, the text of noteId
startEntry(noteId) == [line |-> 96, noteId |-> StringOf(noteId)]

\* line 98: what the second log line is made of, the outcome and the number
\* of milliseconds
completeEntry(result) ==
    [line |-> 98, outcome |-> IF result.success THEN "success" ELSE "failed",
     executionTime |-> result.executionTime]

(***************************************************************************)
(* The route handler, up to its await.                                     *)
(***************************************************************************)
\* lines 87-94: the validation rejection
ReceiveRejected(i, body) ==
    /\ NoTimerDue
    /\ handler[i] = "idle"
    /\ now <= MaxStart
    /\ scriptRejected(body.script)
    /\ request' = [request EXCEPT ![i] = body]
    /\ response' = [response EXCEPT
                      ![i] = [status |-> 400,
                              body |-> Result(FALSE, JsUndefined, JsString(SCRIPT_IS_REQUIRED),
                                              JsUndefined)]]
    /\ handler' = [handler EXCEPT ![i] = "responded"]
    /\ UNCHANGED <<storeVars, now, skew, connected, log, promise, startTime, stdout, stderr, timeout, spawnTimer, timeoutDue,
                   process, ndata, sigterm, written, received, via, first, deliveries, atDeadline>>

\* line 96: the template literal of the first log line throws when noteId has
\* no conversion to a string; the handler ends there, before the engine
ReceiveLogThrows(i, body) ==
    /\ NoTimerDue
    /\ handler[i] = "idle"
    /\ now <= MaxStart
    /\ ~scriptRejected(body.script)
    /\ ToStringThrows(body.noteId)
    /\ request' = [request EXCEPT ![i] = body]
    /\ handler' = [handler EXCEPT ![i] = "faulted"]
    /\ UNCHANGED <<storeVars, now, skew, connected, log, response, promise, startTime, stdout, stderr, timeout, spawnTimer,
                   timeoutDue, process, ndata, sigterm, written, received, via, first,
                   deliveries, atDeadline>>

\* lines 96-97 and the executor of executePython, lines 22-82, spawn returning
\* a child: started when failed is FALSE, and otherwise one whose start failed
\* with an error that spawn reports through the error event
executePython(i, failed, traps) ==
    /\ startTime' = [startTime EXCEPT ![i] = DateNow]
    /\ stdout' = [stdout EXCEPT ![i] = <<>>]
    /\ stderr' = [stderr EXCEPT ![i] = <<>>]
    /\ process' = [process EXCEPT
                     ![i] = [state |-> IF failed THEN "spawnfail" ELSE "running",
                             code |-> JsUndefined, traps |-> traps]]
    /\ spawnTimer' = [spawnTimer EXCEPT ![i] = "armed"]
    /\ timeout' = [timeout EXCEPT ![i] = "armed"]
    /\ timeoutDue' = [timeoutDue EXCEPT ![i] = now + EXECUTION_TIMEOUT]
    /\ promise' = [promise EXCEPT ![i] = PendingPromise]

\* a handler with a ceiling of one running child: a request that arrives while
\* another call's child runs is not started
ReceiveSpawnedOneAtATime(i, body, failed, traps) ==
    /\ NoTimerDue
    /\ handler[i] = "idle"
    /\ now <= MaxStart
    /\ \A j \in Inv \ {i} : process[j].state # "running"
    /\ ~scriptRejected(body.script)
    /\ ~ToStringThrows(body.noteId)
    /\ request' = [request EXCEPT ![i] = body]
    /\ log' = [log EXCEPT ![i] = Append(@, startEntry(body.noteId))]
    /\ executePython(i, failed, traps)
    /\ handler' = [handler EXCEPT ![i] = "awaiting"]
    /\ UNCHANGED <<storeVars, now, skew, connected, response, ndata, sigterm, written, received, via, first, deliveries, atDeadline>>

ReceiveSpawned(i, body, failed, traps) ==
    /\ NoTimerDue
    /\ handler[i] = "idle"
    /\ now <= MaxStart
    /\ ~scriptRejected(body.script)
    /\ ~ToStringThrows(body.noteId)
    /\ request' = [request EXCEPT ![i] = body]
    /\ log' = [log EXCEPT ![i] = Append(@, startEntry(body.noteId))]
    /\ executePython(i, failed, traps)
    /\ handler' = [handler EXCEPT ![i] = "awaiting"]
    /\ UNCHANGED <<storeVars, now, skew, connected, response, ndata, sigterm, written, received, via, first, deliveries, atDeadline>>

\* the same, spawn throwing (line 26): the executor ends there, the promise is
\* rejected and the handler's await throws
ReceiveSpawnThrows(i, body) ==
    /\ NoTimerDue
    /\ handler[i] = "idle"
    /\ now <= MaxStart
    /\ ~scriptRejected(body.script)
    /\ ~ToStringThrows(body.noteId)
    /\ request' = [request EXCEPT ![i] = body]
    /\ startTime' = [startTime EXCEPT ![i] = DateNow]
    /\ log' = [log EXCEPT ![i] = Append(@, startEntry(body.noteId))]
    /\ promise' = [promise EXCEPT ![i] = RejectedPromise]
    /\ handler' = [handler EXCEPT ![i] = "faulted"]
    /\ UNCHANGED <<storeVars, now, skew, connected, response, stdout, stderr, timeout, spawnTimer, timeoutDue, process,
                   ndata, sigterm, written, received, via, first, deliveries, atDeadline>>

\* a handler that reports an engine failure in the transport status
resJsonByOutcome(result) == [status |-> IF result.success THEN 200 ELSE 500, body |-> result]

\* line 100, res.json(result): the status is left at its default
resJson(result) == [status |-> 200, body |-> result]

\* lines 98-100: the handler after its await
Respond(i) ==
    /\ handler[i] = "awaiting"
    /\ promise[i].state = "fulfilled"
    /\ log' = [log EXCEPT ![i] = Append(@, completeEntry(promise[i].value))]
    /\ response' = [response EXCEPT ![i] = resJson(promise[i].value)]
    /\ handler' = [handler EXCEPT ![i] = "responded"]
    /\ UNCHANGED <<storeVars, now, skew, connected, request, promise, startTime, stdout, stderr, timeout, spawnTimer,
                   timeoutDue, process, ndata, sigterm, written, received, via, first, deliveries, atDeadline>>


(***************************************************************************)
(* The engine's callbacks and the child process.                           *)
(***************************************************************************)
\* a data handler over one buffer shared by all the calls
onDataShared(bufs, i, data) == [j \in DOMAIN bufs |-> appendCapped(bufs[j], data)]

\* what a data handler does to the buffers of all the calls in flight: it
\* assigns the one buffer of its own closure
onData(bufs, i, data) == [bufs EXCEPT ![i] = appendCapped(@, data)]

PipesOpen(i) == process[i].state \in {"running", "exited"}

\* a stdout handler that appends to both buffers
OnStdoutDataBoth(i, data, limit) ==
    /\ NoTimerDue
    /\ PipesOpen(i)
    /\ ndata[i] < limit
    /\ stdout' = onData(stdout, i, data)
    /\ stderr' = onData(stderr, i, data)
    /\ written' = [written EXCEPT ![i] = Concat(@, data)]
    /\ received' = [received EXCEPT ![i] = Concat(@, toString(data))]
    /\ ndata' = [ndata EXCEPT ![i] = @ + 1]
    /\ UNCHANGED <<storeVars, now, skew, connected, log, request, handler, response, promise, startTime,
                   timeout, spawnTimer, timeoutDue, process, sigterm, via, first, deliveries,
                   atDeadline>>

\* lines 40-45
OnStdoutData(i, data, limit) ==
    /\ NoTimerDue
    /\ PipesOpen(i)
    /\ ndata[i] < limit
    /\ stdout' = onData(stdout, i, data)
    /\ written' = [written EXCEPT ![i] = Concat(@, data)]
    /\ received' = [received EXCEPT ![i] = Concat(@, toString(data))]
    /\ ndata' = [ndata EXCEPT ![i] = @ + 1]
    /\ UNCHANGED <<storeVars, now, skew, connected, log, request, handler, response, promise, startTime, stderr, timeout,
                   spawnTimer, timeoutDue, process, sigterm, via, first, deliveries, atDeadline>>

\* lines 47-52
OnStderrData(i, data, limit) ==
    /\ NoTimerDue
    /\ PipesOpen(i)
    /\ ndata[i] < limit
    /\ stderr' = onData(stderr, i, data)
    /\ ndata' = [ndata EXCEPT ![i] = @ + 1]
    /\ UNCHANGED <<storeVars, now, skew, connected, log, request, handler, response, promise, startTime, stdout, timeout,
                   spawnTimer, timeoutDue, process, sigterm, written, received, via, first, deliveries,
                   atDeadline>>

\* the child ends, with an exit status or (code null) by a signal; the child
\* object's exit event cancels the timer of spawn's timeout option
ProcExit(i, code) ==
    /\ NoTimerDue
    /\ process[i].state = "running"
    /\ process' = [process EXCEPT ![i].state = "exited", ![i].code = code]
    /\ spawnTimer' = [spawnTimer EXCEPT ![i] = clearTimeout(@)]
    /\ UNCHANGED <<storeVars, now, skew, connected, log, request, handler, response, promise, startTime, stdout, stderr,
                   timeout, timeoutDue, ndata, sigterm, written, received, via, first, deliveries,
                   atDeadline>>

\* a child that does not trap SIGTERM ends by it
DieOfSigterm(i) ==
    /\ sigterm[i] # <<>>
    /\ ~process[i].traps
    /\ ProcExit(i, JsNull)

\* lines 54-72: close, once the child has ended and its pipes have closed, or
\* after the error event of a failed spawn
OnClose(i) ==
    /\ NoTimerDue
    /\ process[i].state \in {"exited", "errored"}
    /\ process' = [process EXCEPT ![i].state = "closed"]
    /\ timeout' = [timeout EXCEPT ![i] = clearTimeout(@)]
    /\ Settle(i, closeResult(process[i].code, stdout[i], stderr[i], DateNow - startTime[i]), "close")
    /\ UNCHANGED <<storeVars, now, skew, connected, log, request, handler, response, startTime, stdout, stderr, spawnTimer,
                   timeoutDue, ndata, sigterm, written, received, atDeadline>>

\* lines 74-81: the error event of a failed spawn
OnError(i) ==
    /\ NoTimerDue
    /\ process[i].state = "spawnfail"
    /\ process' = [process EXCEPT ![i].state = "errored", ![i].code = ENOENT_CODE]
    /\ timeout' = [timeout EXCEPT ![i] = clearTimeout(@)]
    /\ Settle(i, errorResult(SPAWN_ENOENT, DateNow - startTime[i]), "error")
    /\ UNCHANGED <<storeVars, now, skew, connected, log, request, handler, response, startTime, stdout, stderr, spawnTimer,
                   timeoutDue, ndata, sigterm, written, received, atDeadline>>

\* child.kill reaches the child only while the child object holds its handle
HasHandle(i) == process[i].state = "running"

\* timers that signal a child whatever has become of it
killersAnyState(i) ==
    (IF spawnTimer[i] = "armed" THEN <<"spawn timeout">> ELSE <<>>)
    \o (IF timeout[i] = "armed" THEN <<"deadline timer">> ELSE <<>>)

\* who signals the child when the timers of slot i run: the timer of spawn's
\* timeout option (line 27) first, the deadline timer's callback (line 32) second
killers(i) ==
    (IF spawnTimer[i] = "armed" /\ HasHandle(i) THEN <<"spawn timeout">> ELSE <<>>)
    \o (IF timeout[i] = "armed" /\ HasHandle(i) THEN <<"deadline timer">> ELSE <<>>)

\* the timers phase for slot i: both timers were armed in the same turn for
\* the same delay, so they expire together; lines 31-38 are the second
RunTimers(i) ==
    /\ TimerDue(i)
    /\ sigterm' = [sigterm EXCEPT ![i] = @ \o killers(i)]
    /\ spawnTimer' = [spawnTimer EXCEPT ![i] = IF @ = "armed" THEN "fired" ELSE @]
    /\ timeout' = [timeout EXCEPT ![i] = IF @ = "armed" THEN "fired" ELSE @]
    /\ IF timeout[i] = "armed"
       THEN /\ Settle(i, timeoutResult(DateNow - startTime[i]), "timeout")
            /\ atDeadline' = [atDeadline EXCEPT ![i] = process[i].state]
       ELSE UNCHANGED <<promise, via, first, deliveries, atDeadline>>
    /\ UNCHANGED <<storeVars, now, skew, connected, log, request, handler, response, startTime, stdout, stderr, timeoutDue,
                   process, ndata, written, received>>

\* a handler of the connection's close event that cancels the call
DisconnectCancels(i) ==
    /\ connected[i]
    /\ handler[i] = "awaiting"
    /\ connected' = [connected EXCEPT ![i] = FALSE]
    /\ sigterm' = [sigterm EXCEPT ![i] = IF HasHandle(i) THEN Append(@, "disconnect") ELSE @]
    /\ timeout' = [timeout EXCEPT ![i] = clearTimeout(@)]
    /\ Settle(i, errorResult(<<>>, DateNow - startTime[i]), "disconnect")
    /\ UNCHANGED <<storeVars, now, skew, log, request, handler, response, startTime, stdout, stderr,
                   spawnTimer, timeoutDue, process, ndata, written, received, atDeadline>>

\* the caller closes its connection while its request is in flight: the
\* handler of lines 86-101 registers nothing on the request or the response,
\* so nothing of the call runs
Disconnect(i) ==
    /\ connected[i]
    /\ handler[i] = "awaiting"
    /\ connected' = [connected EXCEPT ![i] = FALSE]
    /\ UNCHANGED <<storeVars, now, skew, log, request, handler, response, promise, startTime, stdout,
                   stderr, timeout, spawnTimer, timeoutDue, process, ndata, sigterm, written,
                   received, via, first, deliveries, atDeadline>>

\* the clock advances; it is stopped once no request can arrive and no timer
\* is armed, when nothing reads it any more.  The error event of a failed
\* spawn is emitted from process.nextTick, before the loop goes on: no time
\* passes before it
Tick ==
    /\ now < Horizon
    /\ \A i \in Inv : process[i].state # "spawnfail"
    /\ \/ \E i \in Inv : handler[i] = "idle" /\ now < MaxStart
       \/ \E i \in Inv : timeout[i] = "armed" \/ spawnTimer[i] = "armed"
    /\ now' = now + TickMs
    /\ UNCHANGED <<storeVars, skew, connected, log, request, handler, response, promise, startTime, stdout, stderr, timeout,
                   spawnTimer, timeoutDue, process, ndata, sigterm, written, received, via, first,
                   deliveries, atDeadline>>

(***************************************************************************)
(* The inputs: request bodies, exit codes, chunks.                         *)
(***************************************************************************)
A(n) == <<Run("a", n)>>
Sp(n) == <<Run(" ", n)>>

\* noteId as the client sends it, missing, and malformed
NoteId == JsString(A(1))
NoteIds == {NoteId, JsUndefined, JsNoToString}

Scripts == {JsUndefined, JsNull, JsNumber(0), JsNumber(42), JsObject, JsString(<<>>),
            JsString(Text(<<"p", "a", "s", "s">>)), JsString(Sp(1))}

PASS == JsString(Text(<<"p", "a", "s", "s">>))

BLANK == JsString(Sp(1))

\* the request bodies: every script, the blank one with a missing noteId and
\* the others with the client's, then a missing script with every noteId and
\* a valid script with the malformed one
Bodies == [script : Scripts \ {BLANK}, noteId : {NoteId}, arrived : {TRUE}]
          \cup [script : {BLANK}, noteId : {JsUndefined}, arrived : {TRUE}]
          \cup [script : {JsUndefined}, noteId : NoteIds, arrived : {TRUE}]
          \cup [script : {PASS}, noteId : {JsNoToString}, arrived : {TRUE}]

ExitCodes == {JsNumber(0), JsNumber(1), JsNull}

\* the chunks a child may write: text, white space, a chunk that fills the
\* buffer to the cap, one that exceeds it, and U+00E9 whole and in its two halves
Chunks == {A(1), Sp(1), A(MAX_OUTPUT_LENGTH), A(MAX_OUTPUT_LENGTH + 1),
           <<Run(LeadByte, 1)>>, <<Run(ContByte, 1)>>, <<Run(LeadByte, 1), Run(ContByte, 1)>>}

\* one call at a time, with every kind of request, chunk and exit
Solo == {1}

Next ==
    \/ Tick
    \/ \E i \in Solo, body \in Bodies : ReceiveRejected(i, body)
    \/ \E i \in Solo, body \in Bodies, failed \in BOOLEAN :
          ReceiveSpawned(i, body, failed, FALSE)
    \/ \E i \in Solo, body \in Bodies : ReceiveSpawnThrows(i, body)
    \/ \E i \in Solo, body \in Bodies : ReceiveLogThrows(i, body)
    \/ \E i \in Solo : Respond(i)
    \/ \E i \in Solo, data \in Chunks : OnStdoutData(i, data, MaxData)
    \/ \E i \in Solo, data \in Chunks : OnStderrData(i, data, MaxData)
    \/ \E i \in Solo, code \in ExitCodes : ProcExit(i, code)
    \/ \E i \in Solo : DieOfSigterm(i)
    \/ \E i \in Solo : OnClose(i)
    \/ \E i \in Solo : OnError(i)
    \/ \E i \in Solo : RunTimers(i)

Spec == Init /\ [][Next]_vars

\* two calls in flight together, each child writing its own character
PairBodies == [script : {PASS}, noteId : {NoteId}, arrived : {TRUE}]
PairChunk(i) == IF i = 1 THEN A(1) ELSE <<Run("b", 1)>>
PairMaxData == MaxData - 1
PairExitCodes == {JsNumber(0), JsNumber(1)}

NextPair ==
    \/ Tick
    \/ \E i \in Inv, body \in PairBodies, failed \in BOOLEAN :
          ReceiveSpawned(i, body, failed, FALSE)
    \/ \E i \in Inv : Respond(i)
    \/ \E i \in Inv : OnStdoutData(i, PairChunk(i), PairMaxData)
    \/ \E i \in Inv : OnStderrData(i, PairChunk(i), PairMaxData)
    \/ \E i \in Inv, code \in PairExitCodes : ProcExit(i, code)
    \/ \E i \in Inv : OnClose(i)
    \/ \E i \in Inv : OnError(i)
    \/ \E i \in Inv : RunTimers(i)

SpecPair == Init /\ [][NextPair]_vars


\* one call whose child may trap SIGTERM, under the scheduling the event loop
\* and the operating system guarantee: the clock advances, expired timers run,
\* queued callbacks run, and a child that does not trap SIGTERM dies of it
LiveBodies == [script : {PASS}, noteId : {NoteId, JsNoToString}, arrived : {TRUE}]

NextLive ==
    \/ Tick
    \/ \E i \in Solo, body \in LiveBodies, failed \in BOOLEAN, traps \in BOOLEAN :
          ReceiveSpawned(i, body, failed, traps)
    \/ \E i \in Solo, body \in LiveBodies : ReceiveSpawnThrows(i, body)
    \/ \E i \in Solo, body \in LiveBodies : ReceiveLogThrows(i, body)
    \/ \E i \in Solo : Respond(i)
    \/ \E i \in Solo : OnStdoutData(i, A(1), MaxData)
    \/ \E i \in Solo : OnStderrData(i, A(1), MaxData)
    \/ \E i \in Solo, code \in ExitCodes : ProcExit(i, code)
    \/ \E i \in Solo : DieOfSigterm(i)
    \/ \E i \in Solo : OnClose(i)
    \/ \E i \in Solo : OnError(i)
    \/ \E i \in Solo : RunTimers(i)

SpecLive ==
    /\ Init
    /\ [][NextLive]_vars
    /\ WF_vars(Tick)
    /\ WF_vars(\E i \in Solo : RunTimers(i))
    /\ WF_vars(\E i \in Solo : DieOfSigterm(i))
    /\ WF_vars(\E i \in Solo : OnClose(i))
    /\ WF_vars(\E i \in Solo : OnError(i))
    /\ WF_vars(\E i \in Solo : Respond(i))

\* the system clock is set back, by a correction of a millisecond or by a
\* minute, while a call is in flight
StepsBack == {1, 60000}

ClockStep(back) ==
    /\ skew = 0
    /\ \E i \in Inv : timeout[i] = "armed"
    /\ skew' = 0 - back
    /\ UNCHANGED <<storeVars, now, connected, log, request, handler, response, promise, startTime, stdout,
                   stderr, timeout, spawnTimer, timeoutDue, process, ndata, sigterm, written,
                   received, via, first, deliveries, atDeadline>>

\* one call, the system clock being set back at most once
NextClock ==
    \/ NextLive
    \/ \E back \in StepsBack : ClockStep(back)

SpecClock == Init /\ [][NextClock]_vars

\* one call whose caller may close its connection while the request is in
\* flight
NextCaller ==
    \/ NextLive
    \/ \E i \in Solo : Disconnect(i)

SpecCaller == Init /\ [][NextCaller]_vars

(***************************************************************************)
(* The client's stores.  AsyncStorage and SecureStore hold one item per    *)
(* key; each runs its calls in the order they were made, so a call takes   *)
(* effect when it is made and the caller resumes later, other callers      *)
(* running in between.                                                     *)
(***************************************************************************)
MaxNotes == 2        \* notes created in one run

USER_KEY_PREFIX == Text(<<"@", "u", "s", "e", "r", ":">>)
NOTES_SUFFIX == Text(<<":", "n", "o", "t", "e", "s">>)
CURRENT_USER_KEY == Text(<<"@", "a", "u", "t", "h", ":", "c", "u", "r", "r", "e", "n", "t", "_", "u", "s", "e", "r", "_", "i", "d">>)
AUTH_STORAGE_KEY == Text(<<"@", "a", "u", "t", "h", ":", "u", "s", "e", "r">>)
ANONYMOUS_NOTES_KEY == Text(<<"@", "q", "u", "i", "c", "k", "n", "o", "t", "e", "s", ":", "n", "o", "t", "e", "s">>)
PASSWORD_PREFIX == Text(<<"p", "w", "d", "_">>)
ANONYMOUS_INDEX_KEY == Text(<<"@", "p", "a", "s", "s", "w", "o", "r", "d", "s", ":", "i", "n", "d", "e", "x">>)
INDEX_SUFFIX == Text(<<":", "p", "a", "s", "s", "w", "o", "r", "d", "s", ":", "i", "n", "d", "e", "x">>)

\* JSON.stringify(v), a string that is never empty, and JSON.parse of it
JSONstringify(v) == [t |-> "json", text |-> v]
JSONparse(data) == data.text

\* getItem, setItem and removeItem of a store
getItem(items, key) == IF key \in DOMAIN items THEN items[key] ELSE JsNull
setItem(items, key, value) ==
    [k \in DOMAIN items \cup {key} |-> IF k = key THEN value ELSE items[k]]
removeItem(items, key) == [k \in DOMAIN items \ {key} |-> items[k]]

\* getNotesKey(), from the user current when it is called
getNotesKey ==
    IF ~Truthy(currentUserId) THEN ANONYMOUS_NOTES_KEY
    ELSE Concat(Concat(USER_KEY_PREFIX, currentUserId.str), NOTES_SUFFIX)

\* what getNotes() resolves to, and the list under any key read the same way
notesUnder(key) ==
    LET data == getItem(asyncStorage, key)
    IN  IF Truthy(data) THEN JSONparse(data) ELSE <<>>

getNotes == notesUnder(getNotesKey)

\* the items after saveNotes(notes)
saveNotes(notes) == setItem(asyncStorage, getNotesKey, JSONstringify(notes))

\* a note is [id, title, isStarred]; the n-th id generated stands for
\* `note_${Date.now()}_${random}`
TITLE == Text(<<"t">>)
RETITLED == Text(<<"u">>)
newNote(id) == [id |-> id, title |-> TITLE, isStarred |-> FALSE]

\* notes.findIndex((note) => note.id === id), counted from 1, -1 if there is none
findIndex(notes, id) ==
    IF \E k \in 1 .. Len(notes) : notes[k].id = id
    THEN CHOOSE k \in 1 .. Len(notes) :
             /\ notes[k].id = id
             /\ \A j \in 1 .. k - 1 : notes[j].id # id
    ELSE -1

\* notes.filter((note) => note.id !== id)
RECURSIVE filter(_, _)
filter(notes, id) ==
    IF notes = <<>> THEN <<>>
    ELSE IF Head(notes).id # id THEN <<Head(notes)>> \o filter(Tail(notes), id)
    ELSE filter(Tail(notes), id)

\* the list each operation saves, given the list it read; the list it read
\* where it returns without saving
created(notes, id) == <<newNote(id)>> \o notes

updated(notes, id) ==
    LET index == findIndex(notes, id)
    IN  IF index = -1 THEN notes
        ELSE [notes EXCEPT ![index] = [notes[index] EXCEPT !.title = RETITLED]]

deleted(notes, id) ==
    LET filtered == filter(notes, id)
    IN  IF Len(filtered) = Len(notes) THEN notes ELSE filtered

starToggled(notes, id) ==
    LET index == findIndex(notes, id)
    IN  IF index = -1 THEN notes
        ELSE [notes EXCEPT ![index] = [notes[index] EXCEPT !.isStarred = ~notes[index].isStarred]]

mutated(op, notes, id) ==
    CASE op = "createNote" -> created(notes, id)
      [] op = "updateNote" -> updated(notes, id)
      [] op = "deleteNote" -> deleted(notes, id)
      [] op = "toggleNoteStar" -> starToggled(notes, id)

\* whether the operation reaches saveNotes
saves(op, notes, id) == op = "createNote" \/ mutated(op, notes, id) # notes

\* the list the completed mutations have made under a key
ledgerUnder(key) == IF key \in DOMAIN ledger THEN ledger[key] ELSE <<>>

\* the first half of every note operation: const notes = await getNotes()
awaitGetNotes(c, op, id) ==
    /\ calls[c] = NoCall
    /\ calls' = [calls EXCEPT ![c] = [op |-> op, id |-> id, notes |-> getNotes]]
    /\ UNCHANGED <<serverVars, currentUserId, asyncStorage, secureStore, passwords, ledger,
                   createdUnder, completed>>

\* the ids generated so far, which a caller can name, and the calls of
\* createNote still to generate one
NotesMade == Cardinality(DOMAIN createdUnder)
NoteIdsMade == 1 .. NotesMade
Creating == Cardinality({c \in Calls : calls[c].op = "createNote"})

createNote(c) ==
    /\ NotesMade + Creating < MaxNotes
    /\ awaitGetNotes(c, "createNote", 0)

updateNote(c, id) ==
    /\ id \in NoteIdsMade
    /\ awaitGetNotes(c, "updateNote", id)

deleteNote(c, id) ==
    /\ id \in NoteIdsMade
    /\ awaitGetNotes(c, "deleteNote", id)

toggleNoteStar(c, id) ==
    /\ id \in NoteIdsMade
    /\ awaitGetNotes(c, "toggleNoteStar", id)

\* the second half: the call resumes with the list it read, changes it and
\* saves it under the key of the user current now
resumes(c, op) ==
    LET id == IF op = "createNote" THEN NotesMade + 1 ELSE calls[c].id
        key == getNotesKey
    IN  /\ calls' = [calls EXCEPT ![c] = NoCall]
        /\ asyncStorage' = IF saves(op, calls[c].notes, id)
                           THEN saveNotes(mutated(op, calls[c].notes, id))
                           ELSE asyncStorage
        /\ ledger' = setItem(ledger, key, mutated(op, ledgerUnder(key), id))
        /\ createdUnder' = IF op = "createNote"
                           THEN setItem(createdUnder, id, currentUserId)
                           ELSE createdUnder
        /\ UNCHANGED <<serverVars, currentUserId, secureStore, passwords, completed>>

createNoteResumes(c) ==
    /\ calls[c].op = "createNote"
    /\ resumes(c, "createNote")

updateNoteResumes(c) ==
    /\ calls[c].op = "updateNote"
    /\ resumes(c, "updateNote")

deleteNoteResumes(c) ==
    /\ calls[c].op = "deleteNote"
    /\ resumes(c, "deleteNote")

toggleNoteStarResumes(c) ==
    /\ calls[c].op = "toggleNoteStar"
    /\ resumes(c, "toggleNoteStar")

\* the note operations of one user, two of them in flight together
NextNotes ==
    \/ \E c \in Calls : createNote(c)
    \/ \E c \in Calls, id \in 1 .. MaxNotes : updateNote(c, id)
    \/ \E c \in Calls, id \in 1 .. MaxNotes : deleteNote(c, id)
    \/ \E c \in Calls, id \in 1 .. MaxNotes : toggleNoteStar(c, id)
    \/ \E c \in Calls : createNoteResumes(c)
    \/ \E c \in Calls : updateNoteResumes(c)
    \/ \E c \in Calls : deleteNoteResumes(c)
    \/ \E c \in Calls : toggleNoteStarResumes(c)

SpecNotes == Init /\ [][NextNotes]_vars

\* setCurrentUserId(userId): the assignment, and the items after it
setCurrentUserId(items, userId) ==
    IF Truthy(userId) THEN setItem(items, CURRENT_USER_KEY, userId)
    ELSE removeItem(items, CURRENT_USER_KEY)

\* "guest-" + Date.now()
GUEST == Text(<<"g", "u", "e", "s", "t", "-">>)
GuestTimes == {1, 2}
guestUser(time) == [id |-> JsString(Concat(GUEST, Decimal(time)))]

\* the login screen, shown while nobody is signed in, signs the guest in
signInAsGuest(time) ==
    /\ ~Truthy(currentUserId)
    /\ currentUserId' = guestUser(time).id
    /\ asyncStorage' = setItem(setCurrentUserId(asyncStorage, guestUser(time).id),
                               AUTH_STORAGE_KEY, JSONstringify(guestUser(time)))
    /\ UNCHANGED <<serverVars, secureStore, calls, passwords, ledger, createdUnder, completed>>

signOut ==
    /\ currentUserId' = JsNull
    /\ asyncStorage' = removeItem(setCurrentUserId(asyncStorage, JsNull), AUTH_STORAGE_KEY)
    /\ UNCHANGED <<serverVars, secureStore, calls, passwords, ledger, createdUnder, completed>>

\* notes created while users sign in and out
NextUsers ==
    \/ \E time \in GuestTimes : signInAsGuest(time)
    \/ signOut
    \/ \E c \in Calls : createNote(c)
    \/ \E c \in Calls : createNoteResumes(c)

SpecUsers == Init /\ [][NextUsers]_vars

\* the keys of the password screen
getPasswordIndexKey ==
    IF ~Truthy(currentUserId) THEN ANONYMOUS_INDEX_KEY
    ELSE Concat(Concat(USER_KEY_PREFIX, currentUserId.str), INDEX_SUFFIX)

getPasswordSecretKey(id) ==
    IF ~Truthy(currentUserId) THEN Concat(PASSWORD_PREFIX, id)
    ELSE Concat(Concat(Concat(PASSWORD_PREFIX, currentUserId.str), Text(<<"_">>)), id)

getPasswordIndex ==
    LET data == getItem(asyncStorage, getPasswordIndexKey)
    IN  IF Truthy(data) THEN JSONparse(data) ELSE <<>>

\* the items after savePasswordIndex(index), savePasswordSecret(id, password)
\* and deletePasswordSecret(id): a write the store rejects is logged and
\* leaves the items as they were
savePasswordIndex(index, stored) ==
    IF stored THEN setItem(asyncStorage, getPasswordIndexKey, JSONstringify(index))
    ELSE asyncStorage

savePasswordSecret(id, password, stored) ==
    IF stored THEN setItem(secureStore, getPasswordSecretKey(id), JsString(password))
    ELSE secureStore

deletePasswordSecret(id, stored) ==
    IF stored THEN removeItem(secureStore, getPasswordSecretKey(id)) ELSE secureStore

getPasswordSecret(id) == getItem(secureStore, getPasswordSecretKey(id))

\* what getPasswords() resolves to
RECURSIVE entriesOf(_)
entriesOf(index) ==
    IF index = <<>> THEN <<>>
    ELSE LET meta == Head(index)
             password == getPasswordSecret(meta.id)
         IN  (IF Truthy(password)
              THEN <<[id |-> meta.id, title |-> meta.title, password |-> password.str]>>
              ELSE <<>>) \o entriesOf(Tail(index))

getPasswords == entriesOf(getPasswordIndex)

\* index.findIndex((m) => m.id === entry.id) and the index savePassword saves
indexWith(index, metadata) ==
    LET existingIdx == findIndex(index, metadata.id)
    IN  IF existingIdx >= 0 THEN [index EXCEPT ![existingIdx] = metadata]
        ELSE <<metadata>> \o index

savePassword(entry, indexStored, secretStored) ==
    LET metadata == [id |-> entry.id, title |-> entry.title]
    IN  /\ asyncStorage' = savePasswordIndex(indexWith(getPasswordIndex, metadata), indexStored)
        /\ secureStore' = savePasswordSecret(entry.id, entry.password, secretStored)
        /\ completed' = [op |-> "savePassword", id |-> entry.id, password |-> entry.password]
        /\ UNCHANGED <<serverVars, currentUserId, calls, passwords, ledger, createdUnder>>

deletePassword(id, indexStored, secretStored) ==
    /\ asyncStorage' = savePasswordIndex(filter(getPasswordIndex, id), indexStored)
    /\ secureStore' = deletePasswordSecret(id, secretStored)
    /\ completed' = [op |-> "deletePassword", id |-> id, password |-> <<>>]
    /\ UNCHANGED <<serverVars, currentUserId, calls, passwords, ledger, createdUnder>>

loadPasswords ==
    /\ passwords' = getPasswords
    /\ UNCHANGED <<serverVars, currentUserId, asyncStorage, secureStore, calls, ledger,
                   createdUnder, completed>>

\* the entries the screen saves: the form trims the password and refuses an
\* empty one
PasswordIds == {Text(<<"1">>), Text(<<"2">>)}
Secrets == {Text(<<"p">>), Text(<<"q">>)}
Entries == [id : PasswordIds, title : {TITLE}, password : Secrets]

\* the password screen, one operation at a time
NextPasswords ==
    \/ \E entry \in Entries, indexStored, secretStored \in BOOLEAN :
           savePassword(entry, indexStored, secretStored)
    \/ \E id \in PasswordIds, indexStored, secretStored \in BOOLEAN :
           deletePassword(id, indexStored, secretStored)
    \/ loadPasswords

SpecPasswords == Init /\ [][NextPasswords]_vars

(***************************************************************************)
(* The claims.                                                             *)
(***************************************************************************)
Fulfilled(i) == promise[i].state = "fulfilled"

TIMEOUT_MESSAGE ==
    Text(<<"E", "x", "e", "c", "u", "t", "i", "o", "n", " ", "t", "i", "m", "e", "d", " ",
           "o", "u", "t", " ", "a", "f", "t", "e", "r", " ", "3", "0", " ",
           "s", "e", "c", "o", "n", "d", "s">>)

\* C1: a call whose executor has run delivers exactly one result: while no
\* terminal event (close, error, deadline timer) has been handled the promise
\* is pending with its deadline timer armed, and from the first terminal event
\* on the promise holds the result that event produced, delivered once,
\* whatever terminal events are handled after it.
C1_ExactlyOneResult ==
    \A i \in Inv :
        /\ deliveries[i] <= 1
        /\ promise[i].state = "pending" => (first[i] = NoResult /\ timeout[i] = "armed")
        /\ first[i] # NoResult =>
              (Fulfilled(i) /\ promise[i].value = first[i] /\ deliveries[i] = 1)
        /\ Fulfilled(i) => first[i] # NoResult

\* a close event handled after the deadline timer resolved the call
C1_Witness ==
    \E i \in Inv :
        /\ via[i] = "timeout"
        /\ process[i].state = "closed"
        /\ promise[i].value.error = JsString(TIMEOUT_MESSAGE)

\* C2: no fault escapes: the engine's promise is never rejected, and a handler
\* that has ended has sent a result object (a status, success, and an error
\* text when success is false).
C2_NoFaultEscapes ==
    \A i \in Inv :
        /\ promise[i].state # "rejected"
        /\ handler[i] \notin {"idle", "awaiting"} =>
              /\ response[i].status \in {200, 400}
              /\ response[i].body.success \in BOOLEAN

\* C3: an invocation whose child had not exited when its deadline timer ran is
\* resolved with success false and the message 'Execution timed out after 30
\* seconds', and its child was sent SIGTERM by the timer's callback; and no
\* failure with another message is delivered once the deadline has passed.
C3_DeadlineResolvesTimedOut ==
    \A i \in Inv :
        /\ atDeadline[i] = "running" =>
              /\ Fulfilled(i)
              /\ promise[i].value.success = FALSE
              /\ promise[i].value.error = JsString(TIMEOUT_MESSAGE)
              /\ \E k \in 1..Len(sigterm[i]) : sigterm[i][k] = "deadline timer"
        /\ (Fulfilled(i) /\ promise[i].value.error # JsString(TIMEOUT_MESSAGE)) =>
              (promise[i].value.success
               \/ promise[i].value.executionTime.num < EXECUTION_TIMEOUT)

\* a child killed at the deadline, its close event handled afterwards
C3_Witness ==
    \E i \in Inv :
        /\ atDeadline[i] = "running"
        /\ process[i].state = "closed"
        /\ process[i].code = JsNull


\* C4: the child is never signalled before 30,000 ms have passed since the
\* call started, and once the deadline timer has fired the child eventually
\* stops running.
C4_KilledAtDeadlineAndStops ==
    /\ [](\A i \in Inv : sigterm[i] # <<>> => now - startTime[i] >= EXECUTION_TIMEOUT)
    /\ \A i \in Inv : (timeout[i] = "fired") ~> (process[i].state # "running")

\* the first half of C4 alone
C4_NotKilledEarly ==
    \A i \in Inv : sigterm[i] # <<>> => now - startTime[i] >= EXECUTION_TIMEOUT

\* C5 as claimed: every result of an invocation whose child wrote more than
\* 10,000 characters to stdout has an output of exactly 10,000 characters plus
\* the marker.
C5_TruncatedLengthExact ==
    \A i \in Inv :
        (Fulfilled(i) /\ length(received[i]) > MAX_OUTPUT_LENGTH) =>
            /\ promise[i].value.output.t = "string"
            /\ length(promise[i].value.output.str)
                  = MAX_OUTPUT_LENGTH + length(TRUNCATION_MARKER)

\* the white space String.prototype.trim removes in front of the truncated
\* buffer made of the text s
LeadingWhiteSpace(s) ==
    LET b == Concat(slice(s, MAX_OUTPUT_LENGTH), TRUNCATION_MARKER)
    IN length(b) - length(trimStart(b))

\* C5 as amended: a result delivered by the close event after more than 10,000
\* characters were received on stdout has as output the first 10,000
\* characters and the marker less the leading white space (10,023 characters
\* when the text does not begin with white space), and no result has an
\* output longer than 10,000 characters plus the marker.
C5_TruncatedLength ==
    \A i \in Inv :
        /\ (via[i] = "close" /\ length(received[i]) > MAX_OUTPUT_LENGTH) =>
              /\ promise[i].value.output.t = "string"
              /\ length(promise[i].value.output.str)
                    = MAX_OUTPUT_LENGTH + length(TRUNCATION_MARKER)
                      - LeadingWhiteSpace(received[i])
              /\ received[i][1].c \notin WhiteSpace =>
                    length(promise[i].value.output.str)
                       = MAX_OUTPUT_LENGTH + length(TRUNCATION_MARKER)
        /\ (Fulfilled(i) /\ promise[i].value.output.t = "string") =>
              length(promise[i].value.output.str)
                 <= MAX_OUTPUT_LENGTH + length(TRUNCATION_MARKER)

\* a truncated output of full length, and one shortened by trim
C5_Witness ==
    \E i \in Inv :
        /\ via[i] = "close"
        /\ length(received[i]) > MAX_OUTPUT_LENGTH
        /\ ndata[i] = MaxData
        /\ length(promise[i].value.output.str)
              = MAX_OUTPUT_LENGTH + length(TRUNCATION_MARKER)

\* everything one call owns
SlotState(i) ==
    <<request[i], handler[i], response[i], promise[i], startTime[i], stdout[i], stderr[i],
      timeout[i], spawnTimer[i], timeoutDue[i], process[i], ndata[i], sigterm[i]>>

\* every character of the text s is the one the child of slot i writes
OwnText(i, s) == \A k \in 1..Len(s) : <<Run(s[k].c, 1)>> = PairChunk(i)

\* the buffers of slot i hold only what its own child wrote, and its result is
\* made of its own buffers and of the time since its own start
OwnResult(i) ==
    /\ OwnText(i, stdout[i])
    /\ OwnText(i, stderr[i])
    /\ length(stdout[i]) + length(stderr[i]) = ndata[i]
    /\ Fulfilled(i) =>
          /\ promise[i].value.executionTime.num >= 0
          /\ promise[i].value.executionTime.num <= now - startTime[i]
          /\ via[i] = "timeout" => promise[i].value.executionTime.num >= EXECUTION_TIMEOUT
          /\ via[i] = "close" =>
                promise[i].value.output \in {JsUndefined, JsString(NO_OUTPUT),
                                             JsString(stdout[i])}
          /\ (via[i] = "close" /\ ~promise[i].value.success) =>
                (promise[i].value.error = JsString(stderr[i]) \/ stderr[i] = <<>>)

\* C6: invocations are isolated: with two calls in flight, each child writing
\* its own character, no step changes what two calls own (an event of one call
\* leaves the other's request, response, promise, start time, buffers, timers
\* and child as they were), each call's buffers hold only its own child's
\* data, and each result is made of the call's own buffers and start time.
C6_Isolated ==
    /\ [](\A i \in Inv : OwnResult(i))
    /\ [][\A i \in Inv :
             SlotState(i)' # SlotState(i) =>
                \A j \in Inv \ {i} : SlotState(j)' = SlotState(j)]_vars

\* two calls started at different times, one resolved by close and the other
\* still running, each with data of its own
C6_Witness ==
    /\ startTime[1] # startTime[2]
    /\ via[1] = "close"
    /\ stdout[1] # <<>>
    /\ process[2].state = "running"
    /\ stderr[2] # <<>>

\* C7: a request whose script is not a non-empty string is answered at once
\* with status 400 and {success: false, error}, with no call of the engine, no
\* child and no timer; every request whose script is a non-empty string
\* reaches the engine.
C7_RejectedBeforeEngine ==
    \A i \in Inv :
        request[i].arrived =>
            IF request[i].script.t # "string" \/ request[i].script.str = <<>>
            THEN /\ handler[i] = "responded"
                 /\ response[i].status = 400
                 /\ response[i].body.success = FALSE
                 /\ response[i].body.error.t = "string"
                 /\ response[i].body.error.str # <<>>
                 /\ promise[i] = NoPromise
                 /\ process[i] = NoProcess
                 /\ timeout[i] = "none"
                 /\ spawnTimer[i] = "none"
            ELSE promise[i].state # "none"

\* a truthy script that is not a string, rejected
C7_Witness ==
    \E i \in Inv :
        /\ request[i].script = JsNumber(42)
        /\ response[i].status = 400

\* C8: a call resolved by the close event with code 0, whose child wrote the
\* text T of at most 10,000 characters, has success true and as output T
\* trimmed, or '(no output)' when that is empty.
C8_SuccessOutputIsTrimmedText ==
    \A i \in Inv :
        LET T == toString(written[i]) IN
        (via[i] = "close" /\ process[i].code = JsNumber(0) /\ length(T) <= MAX_OUTPUT_LENGTH) =>
            /\ promise[i].value.success = TRUE
            /\ promise[i].value.output =
                  IF trim(T) = <<>>
                  THEN JsString(Text(<<"(", "n", "o", " ", "o", "u", "t", "p", "u", "t", ")">>))
                  ELSE JsString(trim(T))

HasDigit(s) ==
    \E k \in 1..Len(s) : s[k].c \in {"0", "1", "2", "3", "4", "5", "6", "7", "8", "9"}

\* C9: a call resolved by the close event with a code other than 0 and with
\* stderr empty after trimming has an error text that contains the exit code
\* as a number.
C9_ErrorNamesExitCode ==
    \A i \in Inv :
        (via[i] = "close" /\ process[i].code # JsNumber(0) /\ trim(stderr[i]) = <<>>) =>
            /\ promise[i].value.error.t = "string"
            /\ HasDigit(promise[i].value.error.str)
            /\ process[i].code.t = "number" =>
                  includes(promise[i].value.error.str, TemplateString(process[i].code))

\* the failure result the close handler owes to the buffers out and err
FailureOf(r, code, out, err) ==
    /\ r.success = FALSE
    /\ r.output = (IF trim(out) # <<>> THEN JsString(trim(out)) ELSE JsUndefined)
    /\ r.error = (IF trim(err) # <<>>
                  THEN JsString(trim(err))
                  ELSE JsString(Concat(Text(<<"P", "r", "o", "c", "e", "s", "s", " ",
                                              "e", "x", "i", "t", "e", "d", " ",
                                              "w", "i", "t", "h", " ", "c", "o", "d", "e", " ">>),
                                       TemplateString(code))))

C11_ErrorNeverWithSuccess ==
    \A i \in Inv :
        /\ Fulfilled(i) =>
              /\ promise[i].value.success => promise[i].value.error = JsUndefined
              /\ promise[i].value.success <=>
                    (via[i] = "close" /\ process[i].code = JsNumber(0))
        /\ response[i] # NoResponse =>
              (response[i].body.success = TRUE => response[i].body.error = JsUndefined)

\* a child that wrote to stderr and exited with status 0, answered as a success
C11_Witness ==
    \E i \in Inv :
        /\ handler[i] = "responded"
        /\ via[i] = "close"
        /\ process[i].code = JsNumber(0)
        /\ trim(stderr[i]) # <<>>
        /\ response[i].body.success = TRUE
        /\ response[i].body.error = JsUndefined

\* C12: the status is 400 exactly for a request rejected by the validation,
\* and a response to a call of the engine has status 200 and as body the
\* object the engine's promise was resolved with, whether that is a success,
\* a nonzero exit, a timeout or a spawn failure.
C12_StatusOkForEngineOutcomes ==
    \A i \in Inv :
        /\ response[i].status \in {0, 200, 400}
        /\ response[i].status = 400 <=>
              (request[i].arrived
               /\ (request[i].script.t # "string" \/ request[i].script.str = <<>>))
        /\ (handler[i] = "responded" /\ promise[i].state # "none") =>
              /\ Fulfilled(i)
              /\ response[i].status = 200
              /\ response[i].body = promise[i].value
              /\ response[i].body = first[i]

\* a spawn failure answered with status 200
C12_Witness ==
    \E i \in Inv :
        /\ handler[i] = "responded"
        /\ via[i] = "error"
        /\ response[i].status = 200
        /\ response[i].body.success = FALSE

\* C13: every response body carries executionTime, a non-negative integer,
\* the validation rejection included.
C13_ExecutionTimePresent ==
    \A i \in Inv :
        response[i] # NoResponse =>
            /\ response[i].body.executionTime.t = "number"
            /\ response[i].body.executionTime.num \in Nat

\* the part of C13 that is about the engine: every result of the engine
\* carries executionTime, a number (negative when the system clock was set
\* back during the call)
C13_EngineResultsCarryTime ==
    \A i \in Inv :
        Fulfilled(i) =>
            /\ promise[i].value.executionTime.t = "number"
            /\ promise[i].value.executionTime.num \in Int
            /\ skew = 0 => promise[i].value.executionTime.num \in Nat

\* the result owed to a child that failed to start with ENOENT
SPAWN_FAILURE_MESSAGE ==
    Text(<<"F", "a", "i", "l", "e", "d", " ", "t", "o", " ", "e", "x", "e", "c", "u", "t", "e", ":", " ",
           "s", "p", "a", "w", "n", " ", "p", "y", "t", "h", "o", "n", "3", " ",
           "E", "N", "O", "E", "N", "T">>)

\* the part of C14 about a failure spawn reports through the error event:
\* the call is resolved by the error handler with success false and 'Failed
\* to execute: ' followed by the error's message, its deadline timer is
\* cancelled and its child is never signalled.
C14_EmittedFailureResolves ==
    \A i \in Inv :
        process[i].code = ENOENT_CODE =>
            /\ via[i] = "error"
            /\ Fulfilled(i)
            /\ promise[i].value.success = FALSE
            /\ promise[i].value.output = JsUndefined
            /\ promise[i].value.error = JsString(SPAWN_FAILURE_MESSAGE)
            /\ timeout[i] = "cleared"
            /\ sigterm[i] = <<>>

\* C14: a call whose interpreter fails to start is resolved, never rejected,
\* with success false and 'Failed to execute: ' followed by the error text;
\* its deadline timer is cancelled and no signal is sent to its child.
C14_SpawnFailureResolves ==
    /\ \A i \in Inv : promise[i].state # "rejected"
    /\ C14_EmittedFailureResolves

\* a request that passed the validation of line 89
Validated(i) ==
    request[i].arrived /\ request[i].script.t = "string" /\ request[i].script.str # <<>>

\* the part of C15 about a handler that reached its await: it answers, and
\* only after a terminal event of its call, at the latest the deadline timer
C15_AwaitingIsAnswered ==
    /\ [](\A i \in Inv :
             /\ (handler[i] = "responded" /\ Validated(i)) => via[i] # "none"
             /\ (handler[i] = "awaiting" /\ timeout[i] = "fired") => Fulfilled(i))
    /\ \A i \in Inv : (handler[i] = "awaiting") ~> (handler[i] = "responded")

\* C15: the response to a validated request is sent only after a terminal
\* event of its call, and every validated request is eventually answered.
C15_ValidatedIsAnswered ==
    /\ [](\A i \in Inv : (handler[i] = "responded" /\ Validated(i)) => via[i] # "none")
    /\ \A i \in Inv : Validated(i) ~> (handler[i] = "responded")

\* C16: the execution time of a timed out result is never less than the
\* deadline of 30,000 ms.
C16_TimeoutTimeAtLeastDeadline ==
    \A i \in Inv :
        via[i] = "timeout" => promise[i].value.executionTime.num >= EXECUTION_TIMEOUT

\* what the timed out result does carry: the system clock at the moment the
\* timer ran less the system clock at the start, which is at least the
\* deadline when the system clock was not set back in between
C16_TimeoutTimeIsClockDifference ==
    \A i \in Inv :
        via[i] = "timeout" =>
            /\ promise[i].value.executionTime.num \in Int
            /\ promise[i].value.executionTime.num >= EXECUTION_TIMEOUT - 60000
            /\ skew = 0 => promise[i].value.executionTime.num >= EXECUTION_TIMEOUT

\* what the handler owes to a request by its script alone: the rejection
\* with no call of the engine, or a call of the engine
DecidedByScript(i) ==
    IF Validated(i)
    THEN promise[i].state # "none" /\ response[i].status # 400
    ELSE response[i].status = 400 /\ promise[i] = NoPromise

\* C17: a request whose noteId is missing or malformed is treated as the
\* same request with the client's noteId: rejected or handed to the engine by
\* its script alone.
C17_NoteIdNotInterpreted ==
    \A i \in Inv :
        (request[i].arrived /\ request[i].noteId # NoteId) => DecidedByScript(i)

\* the part of C17 about a noteId that is missing
C17_MissingNoteIdIgnored ==
    \A i \in Inv :
        (request[i].arrived /\ request[i].noteId = JsUndefined) => DecidedByScript(i)

\* C18: no ceiling on the calls in flight: a request with a valid script is
\* accepted and its child started whatever the state of the other calls
\* (the handler is enabled in every state in which the request can arrive),
\* and every request the handler accepted has a child of its own.
C18_NoConcurrencyCeiling ==
    \A i \in Inv :
        /\ (handler[i] = "idle" /\ now <= MaxStart /\ NoTimerDue) =>
              \A body \in PairBodies : ENABLED ReceiveSpawned(i, body, FALSE, FALSE)
        /\ handler[i] \in {"awaiting", "responded"} => process[i].state # "none"

\* as many children running at once as there are requests in flight
C18_Witness ==
    /\ \A i \in Inv : handler[i] = "awaiting" /\ process[i].state = "running"
    /\ \A i \in Inv : promise[i].state = "pending"

\* a buffer longer than the cap is a truncated one
Truncated(buf) == length(buf) > MAX_OUTPUT_LENGTH

\* C19: after every data event each buffer holds at most 10,000 characters
\* and the marker; a truncated stdout buffer is the first 10,000 characters
\* received followed by one marker; and no step changes a truncated buffer,
\* whatever data arrives after the truncation.
C19_BoundedAndFrozen ==
    /\ [](\A i \in Inv :
             /\ length(stdout[i]) <= MAX_OUTPUT_LENGTH + length(TRUNCATION_MARKER)
             /\ length(stderr[i]) <= MAX_OUTPUT_LENGTH + length(TRUNCATION_MARKER)
             /\ Truncated(stdout[i]) =>
                   stdout[i] = Concat(slice(received[i], MAX_OUTPUT_LENGTH), TRUNCATION_MARKER))
    /\ [][\A i \in Inv :
             /\ Truncated(stdout[i]) => stdout'[i] = stdout[i]
             /\ Truncated(stderr[i]) => stderr'[i] = stderr[i]]_vars

\* a data event handled after the one that truncated the buffer: two chunks
\* of 10,001 characters
C19_Witness ==
    \E i \in Inv :
        /\ ndata[i] = 2
        /\ length(received[i]) = 2 * MAX_OUTPUT_LENGTH + 2
        /\ stdout[i] = Concat(A(MAX_OUTPUT_LENGTH), TRUNCATION_MARKER)

Capped(S) ==
    IF length(S) <= MAX_OUTPUT_LENGTH
    THEN S
    ELSE Concat(slice(S, MAX_OUTPUT_LENGTH), TRUNCATION_MARKER)

\* C21: no step changes both buffers of a call: a data event on one stream
\* leaves the other stream's buffer as it was; and the stdout buffer is made
\* of the text received on stdout alone, whatever arrived on stderr and
\* whether or not stderr was truncated.
C21_StreamsIndependent ==
    /\ [](\A i \in Inv : stdout[i] = Capped(received[i]))
    /\ [][\A i \in Inv :
             /\ stdout'[i] # stdout[i] => stderr'[i] = stderr[i]
             /\ stderr'[i] # stderr[i] => stdout'[i] = stdout[i]
             /\ received'[i] # received[i] => stderr'[i] = stderr[i]]_vars

\* one stream truncated, the other holding its short text whole
C21_Witness ==
    \E i \in Inv :
        /\ Truncated(stderr[i])
        /\ stdout[i] = A(1)
        /\ received[i] = A(1)

\* what a step that cancels a call would change
Cancellable(i) ==
    <<promise[i], process[i], sigterm[i], timeout[i], spawnTimer[i], timeoutDue[i],
      stdout[i], stderr[i], response[i], handler[i]>>

\* C22: a call is resolved only by its close event, its error event or its
\* deadline timer; its child is signalled only by a timer that fired; its
\* deadline is 30,000 ms after its start whatever the request holds; and the
\* caller closing the connection changes nothing of the call.
C22_DeadlineOnlyCancellation ==
    /\ [](\A i \in Inv :
             /\ via[i] \in {"none", "close", "error", "timeout"}
             /\ sigterm[i] # <<>> => (timeout[i] = "fired" \/ spawnTimer[i] = "fired")
             /\ timeout[i] # "none" => timeoutDue[i] = startTime[i] + EXECUTION_TIMEOUT)
    /\ [][\A i \in Inv :
             /\ connected'[i] # connected[i] => Cancellable(i)' = Cancellable(i)
             /\ (promise[i].state = "pending" /\ promise'[i].state # "pending") =>
                   (process'[i].state \in {"closed", "errored"} \/ timeout'[i] = "fired")
             /\ (timeout[i] # "none" /\ timeoutDue'[i] # timeoutDue[i]) => FALSE]_vars

\* a call still running after its caller has gone
C22_Witness ==
    \E i \in Inv :
        /\ ~connected[i]
        /\ process[i].state = "running"
        /\ promise[i].state = "pending"
        /\ now > startTime[i]

\* the part of C23 that holds: a handler that called the engine wrote the
\* start entry, with the text of its noteId, before the call, and a handler
\* that answered wrote after it one completion entry with the outcome and the
\* time of the result it sent
C23_LogsStartAndCompletion ==
    \A i \in Inv :
        /\ promise[i].state # "none" =>
              /\ Len(log[i]) >= 1
              /\ log[i][1] = [line |-> 96, noteId |-> IF request[i].noteId = JsUndefined
                                                      THEN Text(<<"u", "n", "d", "e", "f", "i", "n", "e", "d">>)
                                                      ELSE request[i].noteId.str]
        /\ promise[i].state = "none" => log[i] = <<>>
        /\ (handler[i] = "responded" /\ Validated(i)) =>
              /\ Len(log[i]) = 2
              /\ log[i][2].line = 98
              /\ log[i][2].outcome = (IF response[i].body.success THEN "success" ELSE "failed")
              /\ log[i][2].executionTime = response[i].body.executionTime
        /\ handler[i] # "responded" => Len(log[i]) <= 1

\* C23: every validated request has its start entry, and every answered one
\* has after it its completion entry, both carrying the request's noteId.
C23_LogsKeyedByNoteId ==
    \A i \in Inv :
        /\ Validated(i) =>
              /\ Len(log[i]) >= 1
              /\ log[i][1].line = 96
              /\ "noteId" \in DOMAIN log[i][1]
        /\ (handler[i] = "responded" /\ Validated(i)) =>
              /\ Len(log[i]) = 2
              /\ log[i][2].line = 98
              /\ "noteId" \in DOMAIN log[i][2]
              /\ log[i][2].noteId = log[i][1].noteId

\* C24 as claimed: the child of a call is signalled at most once, by the
\* call's deadline timer, and never when the call was resolved by the close
\* or the error event.
C24_KilledOnceByOwnTimer ==
    \A i \in Inv :
        /\ Len(sigterm[i]) <= 1
        /\ \A k \in 1..Len(sigterm[i]) : sigterm[i][k] = "deadline timer"
        /\ via[i] \in {"close", "error"} => sigterm[i] = <<>>

\* C24 as amended: the child of a call is signalled only when the deadline
\* expires with the child still running, and then twice in the same timers
\* phase, by the timer of spawn's timeout option and by the call's deadline
\* timer; a call resolved by the close or the error event has a child that
\* was never signalled and never is.
C24_KilledOnlyAtDeadline ==
    \A i \in Inv :
        /\ sigterm[i] \in {<<>>, <<"spawn timeout", "deadline timer">>}
        /\ sigterm[i] # <<>> =>
              /\ via[i] = "timeout"
              /\ atDeadline[i] = "running"
              /\ now >= timeoutDue[i]
        /\ via[i] \in {"close", "error"} => sigterm[i] = <<>>

\* a child signalled by both timers at its deadline, and closed since
\* without a further signal
C24_Witness ==
    \E i \in Inv :
        /\ sigterm[i] = <<"spawn timeout", "deadline timer">>
        /\ process[i].state = "closed"
        /\ handler[i] = "responded"

\* a result that says why it failed
HasErrorText(r) == r.success = FALSE => (r.error.t = "string" /\ r.error.str # <<>>)

\* C25: every failure, in the engine's promise or in a response, carries an
\* error that is a non-empty string.
C25_FailureHasErrorText ==
    \A i \in Inv :
        /\ Fulfilled(i) => HasErrorText(promise[i].value)
        /\ response[i] # NoResponse => HasErrorText(response[i].body)

\* a child ended by a signal that wrote only white space to stderr, answered
\* with the exit message
C25_Witness ==
    \E i \in Inv :
        /\ handler[i] = "responded"
        /\ via[i] = "close"
        /\ process[i].code = JsNull
        /\ stderr[i] # <<>>
        /\ trim(stderr[i]) = <<>>
        /\ response[i].body.error.str # <<>>

\* C26: the result of a call resolved by its deadline timer has no output:
\* it is success false, the timeout message and a time, whatever the buffers
\* hold then or later, and that is the body of the response.
C26_TimeoutHasNoOutput ==
    \A i \in Inv :
        via[i] = "timeout" =>
            /\ promise[i].value.output = JsUndefined
            /\ promise[i].value.success = FALSE
            /\ promise[i].value.error = JsString(TIMEOUT_MESSAGE)
            /\ promise[i].value.executionTime.t = "number"
            /\ handler[i] = "responded" => response[i].body = promise[i].value

\* a timed out call whose child had written to both streams
C26_Witness ==
    \E i \in Inv :
        /\ via[i] = "timeout"
        /\ handler[i] = "responded"
        /\ trim(stdout[i]) # <<>>
        /\ trim(stderr[i]) # <<>>
        /\ response[i].body.output = JsUndefined

\* the data holds ASCII bytes only
Ascii(data) == \A k \in 1..Len(data) : data[k].c \notin {LeadByte, ContByte}

\* the part of C27 that holds: when the child wrote ASCII only, the buffer is
\* the capped text of all it wrote, however that was split into chunks
C27_AsciiBufferIsCappedConcatenation ==
    \A i \in Inv : Ascii(written[i]) => stdout[i] = Capped(toString(written[i]))

\* C27: the stdout buffer is the text S of all the data received, taken as
\* one piece, when S has at most 10,000 characters, and its first 10,000
\* characters followed by the marker otherwise, however the data was split
\* into chunks.
C27_BufferIsCappedConcatenation ==
    \A i \in Inv : stdout[i] = Capped(toString(written[i]))

\* every note operation has resumed and saved
Settled == \A c \in Calls : calls[c] = NoCall

\* C28: note mutations do not lose each other's effects: once the note
\* operations that were in flight together have all completed, the list stored
\* under a key is the list that the completed mutations make when they are
\* applied one after another.
C28_MutationsAllReflected ==
    Settled => \A key \in DOMAIN ledger : notesUnder(key) = ledger[key]

\* C29: stored notes are partitioned by the current user: whoever is current,
\* getNotes returns no note that was made while a different user was current.
C29_NotesPartitionedByUser ==
    \A k \in 1 .. Len(getNotes) :
        LET maker == createdUnder[getNotes[k].id]
        IN  Truthy(maker) => maker = currentUserId

\* the entries of getPasswords() that have the id
entriesWith(id) == {k \in 1 .. Len(getPasswords) : getPasswords[k].id = id}

\* C30: once savePassword(entry) has completed, getPasswords returns exactly
\* one entry with entry.id, and its password is entry.password; once
\* deletePassword(id) has completed, neither an index record nor a secret
\* remains for id.
C30_SavedIsRetrievableDeletedIsGone ==
    /\ completed.op = "savePassword" =>
           /\ Cardinality(entriesWith(completed.id)) = 1
           /\ \A k \in entriesWith(completed.id) : getPasswords[k].password = completed.password
    /\ completed.op = "deletePassword" =>
           /\ findIndex(getPasswordIndex, completed.id) = -1
           /\ ~Truthy(getPasswordSecret(completed.id))

====
